---- MODULE Spec2Model ----
(***************************************************************************)
(* Commit-reveal prediction settlement of the Tango repository:            *)
(* contracts/PredictionGameScroll.sol, modelled transaction by             *)
(* transaction.  A transaction of the EVM is atomic: a failed require      *)
(* reverts every write of the call, so a reverted call leaves the storage, *)
(* the balance and the log as they were: the steps of the model are the    *)
(* calls that return.  What any call returns and would leave, reverted or  *)
(* not, is an operator of the state and the arguments (SubmitTx, RevealTx, *)
(* SettleTx over SubmitResult, RevealResult, SettleResult: the require     *)
(* chain of the function in the order of the source).  The only point      *)
(* where foreign code runs inside a transaction is the payout call of      *)
(* settlePrediction:                                                       *)
(* the recipient's behaviour there (accept, reject, re-enter               *)
(* settlePrediction) is an input of the action.                            *)
(*                                                                         *)
(* Further sections model the score codec of the front end (a Number as a *)
(* binary floating-point value of Precision bits), the submit and reveal   *)
(* handlers of the pages with the entries they keep in localStorage,       *)
(* contracts/PrizePayout.sol and the LatentContest contract.               *)
(***************************************************************************)
EXTENDS Integers, FiniteSets, Sequences, TLC

\* ---------------------------------------------------------------- bounds
MaxBlock == 3
MaxStake == 2
MaxSurplus == 1
\* Bits of the significand of a Number in the model (53 in ECMAScript; the
\* products of the codec must stay below 2^31 here).
Precision == 22

\* ------------------------------------------------------------- addresses
ZeroAddress == 0
Owner == 1
Addresses == {1, 2, 3}
\* Callers tried on the owner-only functions: the owner and one other account.
AdminCallers == {Owner, 2}
\* Accounts that submit predictions.
Predictors == {2, 3}
\* Accounts that call settlePrediction (any account may): a predictor and an
\* account that never predicts.
Settlers == {Owner, 2}

\* The entries whose records are followed.  Every function of the contract
\* reads and writes only predictions[entryId], aiScores[entryId] and
\* entryCids[entryId] of its own entryId besides minStake and the balance, so
\* other entries show only as the funds they left in the contract (Init).
Entries == {1}

\* ------------------------------------------------- program constants
MaxScore == 1000
DefaultMinStake == 1

\* Scores callers pass to revealPrediction and commit to (uint16 values); a
\* caller of the contract can hash any uint16, one above MaxScore included.
PredScores == {700, 725, 1001}
RevealScores == {700, 725, 1001}
\* Scores the owner passes to setAIScore.
AiScoreInputs == {0, 725, 776, 1001}
Salts == {0, 1}
\* Salts predictors commit with.
CommitSalts == {0}
\* unlockBlock is submitted as block.number + delay.
Delays == {0, 1}
Cids == {"", "bafy-video"}
\* Values the owner passes to setMinStake.
MinStakeInputs == {0, 1}

\* --------------------------------------------------------- revert reasons
OK == "ok"
StakeTooLow == "stake too low"
UnlockNotFuture == "unlock block must be future"
CidRequired == "video CID required"
CommitmentRequired == "commitment required"
PredictionExists == "prediction exists"
NoPrediction == "no prediction"
NotYourPrediction == "not your prediction"
PredictionLocked == "prediction locked"
AlreadyRevealed == "already revealed"
ScoreTooHigh == "score > 10.00"
CommitmentMismatch == "commitment mismatch"
NotRevealedYet == "not revealed yet"
AlreadySettled == "already settled"
StakeMissing == "stake missing"
AIScoreNotSet == "AI score not set"
InsufficientBalance == "insufficient balance"
PayoutFailed == "payout failed"
ZeroAddressTo == "zero address"
WithdrawFailed == "withdraw failed"
NotOwner == "OwnableUnauthorizedAccount"
ReentrantCall == "ReentrancyGuardReentrantCall"

\* ------------------------------------------------------------ commitment
\* abi.encodePacked(uint16 scoreScaled, bytes32 salt): the two fields side by
\* side at fixed widths, the score in the high-order bytes.
SaltSpace == Cardinality(Salts)

encodePacked(scoreScaled, salt) == scoreScaled * SaltSpace + salt

\* keccak256 as an ideal hash: injective on the packed inputs and never the
\* zero word.
keccak256(packed) == packed + 1

computeCommitment(scoreScaled, salt) == keccak256(encodePacked(scoreScaled, salt))

ZeroCommitment == 0

\* ----------------------------------------------------------------- state
\* predictions, aiScores, entryCids, minStake: the storage of the contract.
\* balance: address(this).balance.  blockNumber: block.number.
\* History, not read by the contract: scoreSet[e] (setAIScore has succeeded
\* for e), settles[e] and transfers[e] (settlePrediction calls that returned,
\* payout calls that were made and kept), last (the latest call on an entry
\* that was not reverted), opening[e] (the score and salt the predictor of e hashed
\* into its commitment and keeps to itself until the reveal).
\* hook[s]: where browser session s stands in submitPrediction of the
\* useScrollPrediction hook, and what it read and sent.
\* codec: a score on its way through the conversions of the front end
\* (scaled integer -> decimal Number -> scaled integer).
\* storedEntries[e]: the Entry kept in localStorage for e, with its
\* predictionResult.
\* prize: a call of PrizePayout.executePayout, its arguments and what the
\* other contracts answer, then what it built and returned.
\* contest: entries[1] of LatentContest, with the number of finalize calls
\* that returned.
VARIABLES predictions, aiScores, entryCids, minStake, blockNumber, balance,
          scoreSet, settles, transfers, last, opening, hook, codec,
          storedEntries, prize, contest

vars == <<predictions, aiScores, entryCids, minStake, blockNumber, balance,
          scoreSet, settles, transfers, last, opening, hook, codec,
          storedEntries, prize, contest>>

\* The state outside PredictionGameScroll and the hook's submitPrediction.
others == <<codec, storedEntries, prize, contest>>

\* No score in conversion.
IdleCodec == [pc |-> "idle"]

\* An Entry without predictionResult.
NoPredictionResult == [predictionResult |-> FALSE]

\* No executePayout call.
NoPayoutCall == [pc |-> "none"]

\* entries[entryId] of LatentContest before createEntry.
NoEntry ==
    [creator |-> ZeroAddress, creatorStake |-> 0, totalAudienceStake |-> 0,
     finalized |-> FALSE, aiScore |-> 0, aiScoreSet |-> FALSE,
     audienceAvgScore |-> 0, finalScore |-> 0, audienceList |-> <<>>,
     hasScored |-> {}, audienceScore |-> [a \in {2, 3} |-> 0],
     audienceStake |-> [a \in {2, 3} |-> 0], finalizes |-> 0]

OthersInit ==
    /\ codec = IdleCodec
    /\ storedEntries = [e \in Entries |-> NoPredictionResult]
    /\ prize = NoPayoutCall
    /\ contest = NoEntry

\* The storage and the balance of the contract, without the history variables.
contractState == <<predictions, aiScores, entryCids, minStake, balance>>

history == <<scoreSet, settles, transfers, opening, hook>>

\* Browser sessions running the hook at the same time.
Sessions == {"tab1", "tab2"}

\* A session that has not called submitPrediction of the hook.
IdleHook ==
    [pc |-> "idle", account |-> ZeroAddress, unlockBlock |-> 0, stake |-> 0,
     commitment |-> ZeroCommitment, error |-> "none"]

NoOpening == [score |-> 0, salt |-> 0]

EmptyPrediction ==
    [predictor |-> ZeroAddress, amountStaked |-> 0, unlockBlock |-> 0,
     commitment |-> ZeroCommitment, revealed |-> FALSE, settled |-> FALSE,
     revealedScore |-> 0]

\* The record as the payout recipient finds it when it is called.
NoCall == [made |-> FALSE, settled |-> FALSE, amountStaked |-> 0]

\* A call on an entry that returned: the function, its entryId and sender; for a
\* settlement also what was paid to whom, the record as the payout call
\* found it, and what a settle call re-entered from the recipient returned.
Call(op, caller, entryId) ==
    [op |-> op, caller |-> caller, entry |-> entryId,
     paid |-> 0, to |-> ZeroAddress, atCall |-> NoCall, nested |-> "none"]

\* The contract as deployed (minStake = 1 wei, empty mappings) and holding
\* whatever stakes predictions on other entries have left in it.
InitContract ==
    /\ predictions = [e \in Entries |-> EmptyPrediction]
    /\ aiScores = [e \in Entries |-> 0]
    /\ entryCids = [e \in Entries |-> ""]
    /\ minStake = DefaultMinStake
    /\ blockNumber = 1
    /\ balance \in 0..MaxSurplus
    /\ scoreSet = [e \in Entries |-> FALSE]
    /\ settles = [e \in Entries |-> 0]
    /\ transfers = [e \in Entries |-> 0]
    /\ last = Call("constructor", Owner, 0)
    /\ opening = [e \in Entries |-> NoOpening]
    /\ hook = [s \in Sessions |-> IdleHook]

Init == InitContract /\ OthersInit

\* A transaction that keeps its writes when the payout call fails (the
\* success flag of the call not required).
OutcomeCallUnchecked(result, before, after) ==
    IF result \in {OK, PayoutFailed} THEN after ELSE before

\* What a transaction leaves of a variable: its writes when it returns, the
\* value it started from when it reverts.
Outcome(result, before, after) == IF result = OK THEN after ELSE before

\* ------------------------------------------------------------ setMinStake
\* onlyOwner
SetMinStakeResult(caller) == IF caller # Owner THEN NotOwner ELSE OK

setMinStake(caller, newMinStake) ==
    /\ SetMinStakeResult(caller) = OK
    /\ minStake' = newMinStake
    /\ UNCHANGED <<predictions, aiScores, entryCids, blockNumber, balance, last,
                   history>>

\* ------------------------------------------------------------- setAIScore
\* setAIScore stored without its range check.
SetAIScoreResultNoRange(caller, aiScoreScaled) ==
    IF caller # Owner THEN NotOwner ELSE OK

SetAIScoreResult(caller, aiScoreScaled) ==
    IF caller # Owner THEN NotOwner
    ELSE IF ~(aiScoreScaled <= MaxScore) THEN ScoreTooHigh
    ELSE OK

SetAIScoreTx(caller, entryId, aiScoreScaled) ==
    LET r == SetAIScoreResult(caller, aiScoreScaled) IN
    [result |-> r,
     aiScores |-> Outcome(r, aiScores, [aiScores EXCEPT ![entryId] = aiScoreScaled])]

setAIScore(caller, entryId, aiScoreScaled) ==
    /\ SetAIScoreTx(caller, entryId, aiScoreScaled).result = OK
    /\ aiScores' = SetAIScoreTx(caller, entryId, aiScoreScaled).aiScores
    /\ scoreSet' = [scoreSet EXCEPT ![entryId] = TRUE]
    /\ last' = Call("setAIScore", caller, entryId)
    /\ UNCHANGED <<predictions, entryCids, minStake, blockNumber, balance,
                   settles, transfers, opening, hook>>

\* ------------------------------------------------------- submitPrediction
\* submitPrediction without its check for an existing record.
SubmitResultNoExistsCheck(entryId, videoCid, commitment, unlockBlock, value) ==
    IF ~(value >= minStake) THEN StakeTooLow
    ELSE IF ~(unlockBlock > blockNumber) THEN UnlockNotFuture
    ELSE IF ~(videoCid # "") THEN CidRequired
    ELSE IF ~(commitment # ZeroCommitment) THEN CommitmentRequired
    ELSE OK

\* submitPrediction accepting the current block as unlock block (>= for >).
SubmitResultUnlockNow(entryId, videoCid, commitment, unlockBlock, value) ==
    IF ~(value >= minStake) THEN StakeTooLow
    ELSE IF ~(unlockBlock >= blockNumber) THEN UnlockNotFuture
    ELSE IF ~(videoCid # "") THEN CidRequired
    ELSE IF ~(commitment # ZeroCommitment) THEN CommitmentRequired
    ELSE IF ~(predictions[entryId].predictor = ZeroAddress) THEN PredictionExists
    ELSE OK

SubmitResult(entryId, videoCid, commitment, unlockBlock, value) ==
    IF ~(value >= minStake) THEN StakeTooLow
    ELSE IF ~(unlockBlock > blockNumber) THEN UnlockNotFuture
    ELSE IF ~(videoCid # "") THEN CidRequired
    ELSE IF ~(commitment # ZeroCommitment) THEN CommitmentRequired
    ELSE IF ~(predictions[entryId].predictor = ZeroAddress) THEN PredictionExists
    ELSE OK

\* entryCids[entryId] is written the first time only.
StoredCid(entryId, videoCid) ==
    IF entryCids[entryId] = "" THEN videoCid ELSE entryCids[entryId]

NewPrediction(caller, commitment, unlockBlock, value) ==
    [predictor |-> caller, amountStaked |-> value, unlockBlock |-> unlockBlock,
     commitment |-> commitment, revealed |-> FALSE, settled |-> FALSE,
     revealedScore |-> 0]

\* The call as a whole: what it returns and what it leaves.
SubmitTx(caller, entryId, videoCid, commitment, unlockBlock, value) ==
    LET r == SubmitResult(entryId, videoCid, commitment, unlockBlock, value) IN
    [result |-> r,
     entryCids |-> Outcome(r, entryCids,
                      [entryCids EXCEPT ![entryId] = StoredCid(entryId, videoCid)]),
     predictions |-> Outcome(r, predictions,
                      [predictions EXCEPT ![entryId] =
                          NewPrediction(caller, commitment, unlockBlock, value)]),
     balance |-> Outcome(r, balance, balance + value)]

\* `hashed` is the (score, salt) the caller computed the commitment from.
submitPrediction(caller, entryId, videoCid, commitment, unlockBlock, value, hashed) ==
    LET tx == SubmitTx(caller, entryId, videoCid, commitment, unlockBlock, value) IN
    /\ tx.result = OK
    /\ entryCids' = tx.entryCids
    /\ predictions' = tx.predictions
    /\ balance' = tx.balance
    /\ last' = Call("submitPrediction", caller, entryId)
    /\ opening' = [opening EXCEPT ![entryId] = hashed]
    /\ UNCHANGED <<aiScores, minStake, blockNumber, scoreSet, settles, transfers>>

\* ------------------------------------------------------- revealPrediction
\* revealPrediction unlocking one block late (> for >=).
RevealResultStrictUnlock(caller, entryId, scoreScaled, salt) ==
    LET prediction == predictions[entryId] IN
    IF ~(prediction.predictor # ZeroAddress) THEN NoPrediction
    ELSE IF ~(prediction.predictor = caller) THEN NotYourPrediction
    ELSE IF ~(blockNumber > prediction.unlockBlock) THEN PredictionLocked
    ELSE IF ~(~prediction.revealed) THEN AlreadyRevealed
    ELSE IF ~(scoreScaled <= MaxScore) THEN ScoreTooHigh
    ELSE IF ~(computeCommitment(scoreScaled, salt) = prediction.commitment)
         THEN CommitmentMismatch
    ELSE OK

\* revealPrediction comparing only the score with the one committed to, not
\* the hash of score and salt.
RevealResultScoreOnly(caller, entryId, scoreScaled, salt) ==
    LET prediction == predictions[entryId] IN
    IF ~(prediction.predictor # ZeroAddress) THEN NoPrediction
    ELSE IF ~(prediction.predictor = caller) THEN NotYourPrediction
    ELSE IF ~(blockNumber >= prediction.unlockBlock) THEN PredictionLocked
    ELSE IF ~(~prediction.revealed) THEN AlreadyRevealed
    ELSE IF ~(scoreScaled <= MaxScore) THEN ScoreTooHigh
    ELSE IF ~(\E salt2 \in Salts :
                computeCommitment(scoreScaled, salt2) = prediction.commitment)
         THEN CommitmentMismatch
    ELSE OK

\* revealPrediction open to any caller (no check of msg.sender).
RevealResultAnyCaller(caller, entryId, scoreScaled, salt) ==
    LET prediction == predictions[entryId] IN
    IF ~(prediction.predictor # ZeroAddress) THEN NoPrediction
    ELSE IF ~(blockNumber >= prediction.unlockBlock) THEN PredictionLocked
    ELSE IF ~(~prediction.revealed) THEN AlreadyRevealed
    ELSE IF ~(scoreScaled <= MaxScore) THEN ScoreTooHigh
    ELSE IF ~(computeCommitment(scoreScaled, salt) = prediction.commitment)
         THEN CommitmentMismatch
    ELSE OK

\* revealPrediction without its range check of the score.
RevealResultNoRangeCheck(caller, entryId, scoreScaled, salt) ==
    LET prediction == predictions[entryId] IN
    IF ~(prediction.predictor # ZeroAddress) THEN NoPrediction
    ELSE IF ~(prediction.predictor = caller) THEN NotYourPrediction
    ELSE IF ~(blockNumber >= prediction.unlockBlock) THEN PredictionLocked
    ELSE IF ~(~prediction.revealed) THEN AlreadyRevealed
    ELSE IF ~(computeCommitment(scoreScaled, salt) = prediction.commitment)
         THEN CommitmentMismatch
    ELSE OK

\* revealPrediction without its check of the revealed flag.
RevealResultNoRevealedCheck(caller, entryId, scoreScaled, salt) ==
    LET prediction == predictions[entryId] IN
    IF ~(prediction.predictor # ZeroAddress) THEN NoPrediction
    ELSE IF ~(prediction.predictor = caller) THEN NotYourPrediction
    ELSE IF ~(blockNumber >= prediction.unlockBlock) THEN PredictionLocked
    ELSE IF ~(scoreScaled <= MaxScore) THEN ScoreTooHigh
    ELSE IF ~(computeCommitment(scoreScaled, salt) = prediction.commitment)
         THEN CommitmentMismatch
    ELSE OK

\* revealPrediction without its check of the unlock block.
RevealResultNoLockCheck(caller, entryId, scoreScaled, salt) ==
    LET prediction == predictions[entryId] IN
    IF ~(prediction.predictor # ZeroAddress) THEN NoPrediction
    ELSE IF ~(prediction.predictor = caller) THEN NotYourPrediction
    ELSE IF ~(~prediction.revealed) THEN AlreadyRevealed
    ELSE IF ~(scoreScaled <= MaxScore) THEN ScoreTooHigh
    ELSE IF ~(computeCommitment(scoreScaled, salt) = prediction.commitment)
         THEN CommitmentMismatch
    ELSE OK

RevealResult(caller, entryId, scoreScaled, salt) ==
    LET prediction == predictions[entryId] IN
    IF ~(prediction.predictor # ZeroAddress) THEN NoPrediction
    ELSE IF ~(prediction.predictor = caller) THEN NotYourPrediction
    ELSE IF ~(blockNumber >= prediction.unlockBlock) THEN PredictionLocked
    ELSE IF ~(~prediction.revealed) THEN AlreadyRevealed
    ELSE IF ~(scoreScaled <= MaxScore) THEN ScoreTooHigh
    ELSE IF ~(computeCommitment(scoreScaled, salt) = prediction.commitment)
         THEN CommitmentMismatch
    ELSE OK

Revealed(prediction, scoreScaled) ==
    [prediction EXCEPT !.revealed = TRUE, !.revealedScore = scoreScaled]

RevealTx(caller, entryId, scoreScaled, salt) ==
    LET r == RevealResult(caller, entryId, scoreScaled, salt) IN
    [result |-> r,
     predictions |-> Outcome(r, predictions,
                      [predictions EXCEPT ![entryId] = Revealed(@, scoreScaled)])]

revealPrediction(caller, entryId, scoreScaled, salt) ==
    LET tx == RevealTx(caller, entryId, scoreScaled, salt) IN
    /\ tx.result = OK
    /\ predictions' = tx.predictions
    /\ last' = Call("revealPrediction", caller, entryId)
    /\ UNCHANGED <<aiScores, entryCids, minStake, blockNumber, balance, history>>

\* ------------------------------------------------------- settlePrediction
\* settlePrediction without its check of the settled flag.
SettleChecksNoSettledCheck(preds, entryId, entered) ==
    LET prediction == preds[entryId] IN
    IF entered THEN ReentrantCall
    ELSE IF ~(prediction.predictor # ZeroAddress) THEN NoPrediction
    ELSE IF ~prediction.revealed THEN NotRevealedYet
    ELSE IF ~(blockNumber >= prediction.unlockBlock) THEN PredictionLocked
    ELSE IF ~(prediction.amountStaked > 0) THEN StakeMissing
    ELSE IF ~(aiScores[entryId] > 0) THEN AIScoreNotSet
    ELSE OK

\* The require chain of settlePrediction up to the payout, over a given
\* storage; `entered` is the status of the nonReentrant guard when the call
\* arrives.
SettleChecks(preds, entryId, entered) ==
    LET prediction == preds[entryId] IN
    IF entered THEN ReentrantCall
    ELSE IF ~(prediction.predictor # ZeroAddress) THEN NoPrediction
    ELSE IF ~prediction.revealed THEN NotRevealedYet
    ELSE IF ~(~prediction.settled) THEN AlreadySettled
    ELSE IF ~(blockNumber >= prediction.unlockBlock) THEN PredictionLocked
    ELSE IF ~(prediction.amountStaked > 0) THEN StakeMissing
    ELSE IF ~(aiScores[entryId] > 0) THEN AIScoreNotSet
    ELSE OK

Diff(predicted, aiScoreScaled) ==
    IF predicted > aiScoreScaled THEN predicted - aiScoreScaled
    ELSE aiScoreScaled - predicted

\* The payout curve with its tier bounds exclusive (< for <=).
PayoutExclusiveTiers(stakedAmount, diff) ==
    IF diff = 0 THEN (stakedAmount * 200) \div 100
    ELSE IF diff < 25 THEN (stakedAmount * 50) \div 100
    ELSE IF diff < 50 THEN (stakedAmount * 25) \div 100
    ELSE 0

Payout(stakedAmount, diff) ==
    IF diff = 0 THEN (stakedAmount * 200) \div 100
    ELSE IF diff <= 25 THEN (stakedAmount * 50) \div 100
    ELSE IF diff <= 50 THEN (stakedAmount * 25) \div 100
    ELSE 0

\* What settlePrediction owes on the record as stored.
PayoutDue(entryId) ==
    Payout(predictions[entryId].amountStaked,
           Diff(predictions[entryId].revealedScore, aiScores[entryId]))

\* No write before the payout call (the flags set after it instead).
SettledAfterCall(prediction) == prediction

\* The writes settlePrediction makes before the payout call.
Settled(prediction) ==
    [prediction EXCEPT !.settled = TRUE, !.amountStaked = 0]

\* What the payout recipient does when it receives the call: take the money
\* or revert, after calling settlePrediction(reenter) itself (0: no call).
RecipientBehaviours ==
    [accept : BOOLEAN, reenter : {0} \cup Entries]

\* The payout branch: nothing to send, the balance check, the success flag
\* of the call.
PayoutResult(payout, bal, accept) ==
    IF ~(payout > 0) THEN OK
    ELSE IF ~(bal >= payout) THEN InsufficientBalance
    ELSE IF ~accept THEN PayoutFailed
    ELSE OK

\* The payout sent to the owner of the contract instead.
PayoutRecipientOwner(prediction) == Owner

\* The address the payout call is made on.
PayoutRecipient(prediction) == prediction.predictor

SettleResult(entryId, behaviour) ==
    IF SettleChecks(predictions, entryId, FALSE) # OK
    THEN SettleChecks(predictions, entryId, FALSE)
    ELSE PayoutResult(PayoutDue(entryId), balance, behaviour.accept)

\* The call as a whole.  atCall is the record as the payout call finds it;
\* nested is what a settlePrediction call made by the recipient from inside
\* the payout call returns (the guard is entered, the writes are made).
SettleTx(entryId, behaviour) ==
    LET prediction == predictions[entryId]
        r == SettleResult(entryId, behaviour)
        payout == PayoutDue(entryId)
        written == [predictions EXCEPT ![entryId] = Settled(prediction)]
        called == /\ SettleChecks(predictions, entryId, FALSE) = OK
                  /\ payout > 0
                  /\ balance >= payout
    IN
    [result |-> r,
     predictions |-> Outcome(r, predictions, written),
     balance |-> Outcome(r, balance, balance - payout),
     paid |-> Outcome(r, 0, payout),
     to |-> IF Outcome(r, 0, payout) > 0 THEN PayoutRecipient(prediction)
            ELSE ZeroAddress,
     atCall |-> IF called
                THEN [made |-> TRUE,
                      settled |-> written[entryId].settled,
                      amountStaked |-> written[entryId].amountStaked]
                ELSE NoCall,
     nested |-> IF called /\ behaviour.reenter # 0
                THEN SettleChecks(written, behaviour.reenter, TRUE)
                ELSE "none"]

settlePrediction(caller, entryId, behaviour) ==
    LET tx == SettleTx(entryId, behaviour) IN
    /\ tx.result = OK
    /\ predictions' = tx.predictions
    /\ balance' = tx.balance
    /\ settles' = [settles EXCEPT ![entryId] = @ + 1]
    /\ transfers' = IF tx.paid > 0 THEN [transfers EXCEPT ![entryId] = @ + 1]
                    ELSE transfers
    /\ last' = [Call("settlePrediction", caller, entryId) EXCEPT
                  !.paid = tx.paid, !.to = tx.to,
                  !.atCall = tx.atCall, !.nested = tx.nested]
    /\ UNCHANGED <<aiScores, entryCids, minStake, blockNumber, scoreSet, opening,
                   hook>>

\* --------------------------------------------------------------- withdraw
WithdrawResult(caller, to, amount, accept) ==
    IF caller # Owner THEN NotOwner
    ELSE IF ~(to # ZeroAddress) THEN ZeroAddressTo
    ELSE IF ~(balance >= amount) THEN InsufficientBalance
    ELSE IF ~accept THEN WithdrawFailed
    ELSE OK

withdraw(caller, to, amount, accept) ==
    /\ WithdrawResult(caller, to, amount, accept) = OK
    /\ balance' = balance - amount
    /\ UNCHANGED <<predictions, aiScores, entryCids, minStake, blockNumber, last,
                   history>>

\* ------------------------------------------------------------- block.number
MineBlock ==
    /\ blockNumber < MaxBlock
    /\ blockNumber' = blockNumber + 1
    /\ UNCHANGED <<predictions, aiScores, entryCids, minStake, balance, last,
                   history, others>>

\* ------------------------------------------------------------------- next
DoSetMinStake ==
    \E caller \in AdminCallers, newMinStake \in MinStakeInputs :
        setMinStake(caller, newMinStake) /\ UNCHANGED others

DoSetAIScore ==
    \E caller \in AdminCallers, entryId \in Entries, s \in AiScoreInputs :
        setAIScore(caller, entryId, s) /\ UNCHANGED others

\* The caller hashes a score and a salt of its own, or sends the zero word.
DoSubmit ==
    \E caller \in Predictors, entryId \in Entries, videoCid \in Cids,
       zero \in BOOLEAN, delay \in Delays, value \in 0..MaxStake :
      \E score \in (IF zero THEN {0} ELSE PredScores), salt \in CommitSalts :
        /\ submitPrediction(caller, entryId, videoCid,
                            IF zero THEN ZeroCommitment ELSE computeCommitment(score, salt),
                            blockNumber + delay, value,
                            [score |-> score, salt |-> salt])
        /\ UNCHANGED <<hook, others>>

DoReveal ==
    \E caller \in Addresses, entryId \in Entries, s \in RevealScores, salt \in Salts :
        revealPrediction(caller, entryId, s, salt) /\ UNCHANGED others

DoSettle ==
    \E caller \in Settlers, entryId \in Entries, behaviour \in RecipientBehaviours :
        settlePrediction(caller, entryId, behaviour) /\ UNCHANGED others

DoWithdraw ==
    \E caller \in AdminCallers, to \in {ZeroAddress, Owner},
       amount \in 0..MaxStake, accept \in BOOLEAN :
        withdraw(caller, to, amount, accept) /\ UNCHANGED others

Next ==
    \/ DoSetMinStake
    \/ DoSetAIScore
    \/ DoSubmit
    \/ DoReveal
    \/ DoSettle
    \/ DoWithdraw
    \/ MineBlock

Spec == Init /\ [][Next]_vars

\* ------------------------------------------------- settlement in isolation
\* Every revealed, funded record over a band of scores wide enough for every
\* tier of the payout curve and its boundaries, scored at either end of the
\* band (a prediction above and below the oracle), then settled.
BandLow == 700
MaxDiff == 52
ScoreBand == BandLow..(BandLow + MaxDiff)
PayoutStakes == {1, 2, 4, 100}

InitPayout ==
    /\ \E predictor \in Predictors, stake \in PayoutStakes, score \in ScoreBand :
          /\ predictions = [e \in Entries |->
                 [predictor |-> predictor, amountStaked |-> stake, unlockBlock |-> 2,
                  commitment |-> computeCommitment(score, 0), revealed |-> TRUE,
                  settled |-> FALSE, revealedScore |-> score]]
          /\ opening = [e \in Entries |-> [score |-> score, salt |-> 0]]
          /\ balance = 2 * stake
          /\ last = Call("revealPrediction", predictor, 1)
    /\ aiScores \in [Entries -> {BandLow, BandLow + MaxDiff}]
    /\ entryCids = [e \in Entries |-> "bafy-video"]
    /\ minStake = DefaultMinStake
    /\ blockNumber = 2
    /\ scoreSet = [e \in Entries |-> TRUE]
    /\ settles = [e \in Entries |-> 0]
    /\ transfers = [e \in Entries |-> 0]
    /\ hook = [s \in Sessions |-> IdleHook]
    /\ OthersInit

NextPayout == DoSettle

SpecPayout == InitPayout /\ [][NextPayout]_vars

\* ------------------------------------------- submitPrediction of the hook
\* blocksToAdd of the hook (40 blocks at least in the source), scaled to the
\* heights of the model.
BlocksToAdd == 2

\* The hook reads block.number and predictions(entryId): it gives up when it
\* sees a record, and goes on when it sees none or when the read throws.
HookRead(s, account, entryId, readOk) ==
    /\ hook[s].pc = "idle"
    /\ hook' = [hook EXCEPT ![s] =
          IF readOk /\ predictions[entryId].predictor # ZeroAddress
          THEN [IdleHook EXCEPT !.pc = "refused", !.account = account]
          ELSE [IdleHook EXCEPT !.pc = "checked", !.account = account,
                                !.unlockBlock = blockNumber + BlocksToAdd]]
    /\ UNCHANGED <<predictions, aiScores, entryCids, minStake, blockNumber, balance,
                   scoreSet, settles, transfers, last, opening>>

\* stakeToUse: the stake asked for, raised to minStake.
StakeToUse(stake) == IF stake < minStake THEN minStake ELSE stake

\* The hook hashes score and salt, sends the transaction with the unlock
\* block it computed when it read, and waits for the receipt: the call is
\* mined, or it reverts and the stake stays with the sender.
HookSend(s, entryId, videoCid, score, salt, stake) ==
    LET account == hook[s].account
        commitment == computeCommitment(score, salt)
        unlockBlock == hook[s].unlockBlock
        value == StakeToUse(stake)
        tx == SubmitTx(account, entryId, videoCid, commitment, unlockBlock, value)
        sent == [hook[s] EXCEPT !.stake = value, !.commitment = commitment]
    IN
    /\ hook[s].pc = "checked"
    /\ \/ /\ submitPrediction(account, entryId, videoCid, commitment, unlockBlock,
                               value, [score |-> score, salt |-> salt])
          /\ hook' = [hook EXCEPT ![s] = [sent EXCEPT !.pc = "confirmed"]]
       \/ /\ tx.result # OK
          /\ hook' = [hook EXCEPT ![s] =
                        [sent EXCEPT !.pc = "failed", !.error = tx.result]]
          /\ UNCHANGED <<predictions, aiScores, entryCids, minStake, blockNumber,
                         balance, scoreSet, settles, transfers, last, opening>>

DoHookRead ==
    \E s \in Sessions, account \in Predictors, entryId \in Entries,
       readOk \in BOOLEAN :
        HookRead(s, account, entryId, readOk) /\ UNCHANGED others

DoHookSend ==
    \E s \in Sessions, entryId \in Entries, score \in PredScores,
       salt \in CommitSalts, stake \in 0..MaxStake :
        HookSend(s, entryId, "bafy-video", score, salt, stake) /\ UNCHANGED others

\* Sessions racing for an entry of a contract that holds nothing yet.
InitRace == Init /\ balance = 0

NextRace ==
    \/ DoHookRead
    \/ DoHookSend
    \/ MineBlock

SpecRace == InitRace /\ [][NextRace]_vars

\* ================================================================ claims
\* The states of a record: NONE, COMMITTED, REVEALED, SETTLED.
NONE == "NONE"
COMMITTED == "COMMITTED"
REVEALED == "REVEALED"
SETTLED == "SETTLED"

\* The moves the specification allows a record.
PhaseSteps ==
    {<<NONE, COMMITTED>>, <<COMMITTED, REVEALED>>, <<REVEALED, SETTLED>>}

Phase(prediction) ==
    IF prediction.predictor = ZeroAddress THEN NONE
    ELSE IF prediction.settled THEN SETTLED
    ELSE IF prediction.revealed THEN REVEALED
    ELSE COMMITTED

\* The error kinds of the specification, as the contract words them.
NotFound == NoPrediction
NotRevealed == NotRevealedYet
ScoreNotSet == AIScoreNotSet
TooEarly == PredictionLocked
AlreadyCommitted == PredictionExists
InsufficientReserve == InsufficientBalance

\* A settle call leaves the contract as it found it and pays nothing.
SettleNoEffect(tx) ==
    /\ tx.predictions = predictions
    /\ tx.balance = balance
    /\ tx.paid = 0
    /\ tx.atCall = NoCall

\* C1: settle succeeds at most once per entity; once a settle has succeeded,
\* every settle call for that entity, whatever the recipient would do, fails
\* with AlreadySettled, pays nothing and leaves storage and balance as they
\* were.
C1_NoDoubleSettlement ==
    \A e \in Entries :
        /\ settles[e] <= 1
        /\ settles[e] >= 1 =>
              \A b \in RecipientBehaviours :
                  /\ SettleTx(e, b).result = AlreadySettled
                  /\ SettleNoEffect(SettleTx(e, b))

\* A record was settled, other transactions went through since, and a
\* further settle call is answered AlreadySettled.
C1_Witness ==
    \E e \in Entries :
        /\ settles[e] = 1
        /\ last.op = "setAIScore"
        /\ \A b \in RecipientBehaviours : SettleTx(e, b).result = AlreadySettled

\* C2: per entity the record state only moves NONE -> COMMITTED -> REVEALED
\* -> SETTLED, one step at a time, in every step of every operation, and
\* settled is never true while revealed is false.
C2_PhaseOrder ==
    [][\A e \in Entries :
          /\ \/ Phase(predictions'[e]) = Phase(predictions[e])
             \/ <<Phase(predictions[e]), Phase(predictions'[e])>> \in PhaseSteps
          /\ predictions'[e].settled => predictions'[e].revealed]_vars

\* A record has gone all the way to SETTLED.
C2_Witness ==
    \E e \in Entries : Phase(predictions[e]) = SETTLED /\ last.op = "settlePrediction"

\* C3: reveal without a record fails with NotFound, settle on a committed,
\* unrevealed record fails with NotRevealed, settle on a revealed record whose
\* oracle score was never set fails with ScoreNotSet; each leaves the record,
\* the registry and the balance unchanged.
C3_OutOfOrderCalls ==
    \A e \in Entries :
        /\ Phase(predictions[e]) = NONE =>
              \A c \in Addresses, s \in RevealScores, salt \in Salts :
                  /\ RevealTx(c, e, s, salt).result = NotFound
                  /\ RevealTx(c, e, s, salt).predictions = predictions
        /\ Phase(predictions[e]) = COMMITTED =>
              \A b \in RecipientBehaviours :
                  /\ SettleTx(e, b).result = NotRevealed
                  /\ SettleNoEffect(SettleTx(e, b))
        /\ Phase(predictions[e]) = REVEALED /\ ~scoreSet[e] =>
              \A b \in RecipientBehaviours :
                  /\ SettleTx(e, b).result = ScoreNotSet
                  /\ SettleNoEffect(SettleTx(e, b))

\* The (score, salt) pairs that open the stored commitment of e.
Openings(e) ==
    {os \in RevealScores \X Salts :
        computeCommitment(os[1], os[2]) = predictions[e].commitment}

\* C4: for a record not yet revealed, a reveal by the predictor with the
\* committed score (in [0,1000]) and salt fails with TooEarly, changing
\* nothing, at every height below unlockHeight and succeeds at unlockHeight
\* and at every later height.
C4_TimeLock ==
    \A e \in Entries :
        Phase(predictions[e]) = COMMITTED /\ opening[e].score <= MaxScore =>
            LET tx == RevealTx(predictions[e].predictor, e,
                               opening[e].score, opening[e].salt)
            IN IF blockNumber < predictions[e].unlockBlock
               THEN tx.result = TooEarly /\ tx.predictions = predictions
               ELSE tx.result = OK /\ Phase(tx.predictions[e]) = REVEALED

\* A reveal has just gone through in the very block the record unlocks.
C4_Witness ==
    /\ last.op = "revealPrediction"
    /\ blockNumber = predictions[last.entry].unlockBlock
    /\ predictions[last.entry].revealed

\* C5: for an unrevealed record at a height >= unlockHeight, a reveal by the
\* predictor with a score in [0,1000] moves the record to REVEALED (storing
\* that score) exactly when commit(score, salt) is the stored commitment; the
\* committed score with another salt, and another score with the committed
\* salt, fail with CommitmentMismatch and leave the record as it was.
C5_CommitmentCheck ==
    \A e \in Entries :
        (/\ Phase(predictions[e]) = COMMITTED
         /\ blockNumber >= predictions[e].unlockBlock) =>
            \A s \in RevealScores, salt \in Salts :
                s <= MaxScore =>
                    LET tx == RevealTx(predictions[e].predictor, e, s, salt) IN
                    /\ <<s, salt>> \in Openings(e) <=>
                           Phase(tx.predictions[e]) = REVEALED
                    /\ <<s, salt>> \in Openings(e) =>
                           /\ tx.result = OK
                           /\ tx.predictions[e].revealedScore = s
                    /\ <<s, salt>> \notin Openings(e) =>
                           /\ tx.result = CommitmentMismatch
                           /\ tx.predictions = predictions
                    /\ (s = opening[e].score) # (salt = opening[e].salt) =>
                           tx.result = CommitmentMismatch

\* An unlocked, unrevealed record whose committed score is refused with
\* another salt, and whose committed salt is refused with another score.
C5_Witness ==
    \E e \in Entries :
        /\ Phase(predictions[e]) = COMMITTED
        /\ blockNumber >= predictions[e].unlockBlock
        /\ \E salt \in Salts :
              /\ salt # opening[e].salt
              /\ RevealTx(predictions[e].predictor, e, opening[e].score, salt).result
                   = CommitmentMismatch
        /\ \E s \in RevealScores :
              /\ s # opening[e].score
              /\ RevealTx(predictions[e].predictor, e, s, opening[e].salt).result
                   = CommitmentMismatch

\* The commitments the model submits, and every submitPrediction call it
\* makes on entry e in this state.
SubmitCommitments ==
    {ZeroCommitment} \cup
        {computeCommitment(s, salt) : s \in PredScores, salt \in CommitSalts}

SubmitCalls(e) ==
    {SubmitTx(c, e, cid, commitment, blockNumber + delay, value) :
        c \in Predictors, cid \in Cids, commitment \in SubmitCommitments,
        delay \in Delays, value \in 0..MaxStake}

SubmitNoEffect(tx) ==
    /\ tx.predictions = predictions
    /\ tx.entryCids = entryCids
    /\ tx.balance = balance

\* C6 as stated: a second submit for an entity that has a record fails with
\* AlreadyCommitted and leaves the record, the locator and the balance
\* untouched.
C6_SecondSubmitAlreadyCommitted ==
    \A e \in Entries :
        Phase(predictions[e]) # NONE =>
            \A tx \in SubmitCalls(e) :
                tx.result = AlreadyCommitted /\ SubmitNoEffect(tx)

\* The arguments pass the checks submitPrediction makes before it looks for
\* an existing record.
PassesValidation(videoCid, commitment, unlockBlock, value) ==
    /\ value >= minStake
    /\ unlockBlock > blockNumber
    /\ videoCid # ""
    /\ commitment # ZeroCommitment

\* C6 amended: a second submit for an entity that has a record (COMMITTED,
\* REVEALED or SETTLED, same or another predictor) always fails and leaves
\* the record, the locator and the balance untouched; it fails with
\* AlreadyCommitted when its arguments pass the validation checks, and with
\* the validation error otherwise.
C6_SecondSubmitRejected ==
    \A e \in Entries :
        Phase(predictions[e]) # NONE =>
            \A c \in Predictors, cid \in Cids, commitment \in SubmitCommitments,
               delay \in Delays, value \in 0..MaxStake :
                LET tx == SubmitTx(c, e, cid, commitment, blockNumber + delay, value)
                IN /\ tx.result # OK
                   /\ SubmitNoEffect(tx)
                   /\ PassesValidation(cid, commitment, blockNumber + delay, value)
                        <=> tx.result = AlreadyCommitted

\* A settled record, and a well-formed submit by another account on it that
\* is answered AlreadyCommitted.
C6_Witness ==
    \E e \in Entries, c \in Predictors :
        /\ Phase(predictions[e]) = SETTLED
        /\ c # predictions[e].predictor
        /\ blockNumber < MaxBlock
        /\ SubmitTx(c, e, "bafy-video", computeCommitment(725, 0),
                    blockNumber + 1, MaxStake).result = AlreadyCommitted

\* The payout table of the specification.
TablePayout(stake, diff) ==
    IF diff = 0 THEN 2 * stake
    ELSE IF 1 <= diff /\ diff <= 25 THEN (stake * 50) \div 100
    ELSE IF 26 <= diff /\ diff <= 50 THEN (stake * 25) \div 100
    ELSE 0

AbsDiff(a, b) == IF a >= b THEN a - b ELSE b - a

\* C7: a successful settle pays the predictor exactly 200% of the stake when
\* |revealedScore - oracleScore| is 0, 50% (stake*50/100) when it is 1..25,
\* 25% when it is 26..50 and nothing from 51 on, out of the balance.
C7_PayoutTable ==
    \A e \in Entries, b \in RecipientBehaviours :
        LET tx == SettleTx(e, b)
            due == TablePayout(predictions[e].amountStaked,
                               AbsDiff(predictions[e].revealedScore, aiScores[e]))
        IN tx.result = OK =>
              /\ tx.paid = due
              /\ tx.balance = balance - due
              /\ due > 0 => tx.to = predictions[e].predictor

\* A settlement at diff = 26 has paid 25 on a stake of 100.
C7_Witness ==
    /\ last.op = "settlePrediction"
    /\ AbsDiff(predictions[last.entry].revealedScore, aiScores[last.entry]) = 26
    /\ last.paid = 25
    /\ last.to = predictions[last.entry].predictor

\* C8: an oracle score set to 0 is told from an unset one: settle on a
\* revealed record fails with ScoreNotSet only when setScore never succeeded
\* for the entity.
C8_ZeroScoreIsSet ==
    \A e \in Entries, b \in RecipientBehaviours :
        (Phase(predictions[e]) = REVEALED /\ SettleTx(e, b).result = ScoreNotSet)
            => ~scoreSet[e]

\* C9: when settle makes the payout call the record already has settled =
\* TRUE and amountStaked = 0; a settle call for the same entity (or any
\* other) made by the recipient from inside the payout call fails, and would
\* fail on the stored record alone; no entity is ever paid twice.
C9_MutateBeforeTransfer ==
    \A e \in Entries :
        /\ transfers[e] <= 1
        /\ \A b \in RecipientBehaviours :
              LET tx == SettleTx(e, b) IN
              tx.atCall.made =>
                  /\ tx.atCall.settled
                  /\ tx.atCall.amountStaked = 0
                  /\ b.reenter # 0 => tx.nested \notin {OK, "none"}
                  /\ SettleChecks([predictions EXCEPT ![e] = Settled(@)], e, FALSE)
                       = AlreadySettled

\* A settlement whose recipient re-entered settlePrediction for the same
\* entity from the payout call, was refused, and was paid once.
C9_Witness ==
    /\ last.op = "settlePrediction"
    /\ last.atCall.made
    /\ last.nested = ReentrantCall
    /\ last.paid > 0
    /\ transfers[last.entry] = 1

\* C10: a settle call applies all of settled = TRUE, amountStaked = 0 and
\* the payout, or, when it fails for any reason (the balance does not cover
\* the payout, the predictor refuses the transfer), none of them: the record
\* stays REVEALED with its stake and the balance is unchanged.
C10_AllOrNothing ==
    \A e \in Entries, b \in RecipientBehaviours :
        LET tx == SettleTx(e, b) IN
        IF tx.result = OK
        THEN /\ tx.predictions[e].settled
             /\ tx.predictions[e].amountStaked = 0
             /\ tx.paid = PayoutDue(e)
             /\ tx.balance = balance - PayoutDue(e)
        ELSE /\ tx.predictions = predictions
             /\ tx.balance = balance
             /\ tx.paid = 0

\* A revealed record with its stake whose payout the balance does not cover
\* (the owner withdrew, or the surplus never was there): the settle call fails
\* for lack of funds.
C10_Witness ==
    \E e \in Entries :
        /\ Phase(predictions[e]) = REVEALED
        /\ predictions[e].amountStaked > 0
        /\ balance < 2 * predictions[e].amountStaked
        /\ \E b \in RecipientBehaviours :
              SettleTx(e, b).result = InsufficientReserve

\* More error kinds of the specification, as the contract words them.
ZeroStake == StakeTooLow
InvalidUnlock == UnlockNotFuture
Unauthorized == NotYourPrediction

\* C11: submit fails with ZeroStake whenever the stake is not strictly
\* positive, whatever minStake the owner has configured, and no record in
\* state COMMITTED or REVEALED has amountStaked = 0.
C11_ZeroStakeRefused ==
    \A e \in Entries :
        /\ \A c \in Predictors, cid \in Cids, commitment \in SubmitCommitments,
              delay \in Delays :
               SubmitTx(c, e, cid, commitment, blockNumber + delay, 0).result = ZeroStake
        /\ Phase(predictions[e]) \in {COMMITTED, REVEALED} =>
               predictions[e].amountStaked > 0

\* The unlock heights tried against the current height: the block before it,
\* the current block, and the next block.
UnlockInputs == {blockNumber - 1, blockNumber, blockNumber + 1}

\* C12 as stated: every submit with unlockHeight <= currentHeight fails with
\* InvalidUnlock and creates no record.
C12_InvalidUnlockAsStated ==
    \A e \in Entries, c \in Predictors, cid \in Cids,
       commitment \in SubmitCommitments, unlockBlock \in UnlockInputs,
       value \in 0..MaxStake :
        unlockBlock <= blockNumber =>
            /\ SubmitTx(c, e, cid, commitment, unlockBlock, value).result = InvalidUnlock
            /\ SubmitNoEffect(SubmitTx(c, e, cid, commitment, unlockBlock, value))

\* C12 amended: every submit with unlockHeight <= currentHeight (equal
\* included) fails and creates no record, with InvalidUnlock when the stake
\* reaches minStake and with the stake error otherwise (the stake is checked
\* first); a well-formed submit on a free entity with unlockHeight =
\* currentHeight + 1 is accepted; and every submit that creates a record
\* stores an unlockBlock greater than the height it is made at.
C12_InvalidUnlock ==
    \A e \in Entries, c \in Predictors, cid \in Cids,
       commitment \in SubmitCommitments, unlockBlock \in UnlockInputs,
       value \in 0..MaxStake :
        LET tx == SubmitTx(c, e, cid, commitment, unlockBlock, value) IN
        /\ unlockBlock <= blockNumber =>
              /\ tx.result # OK
              /\ SubmitNoEffect(tx)
              /\ value >= minStake <=> tx.result = InvalidUnlock
        /\ (/\ unlockBlock = blockNumber + 1
            /\ PassesValidation(cid, commitment, unlockBlock, value)
            /\ Phase(predictions[e]) = NONE) => tx.result = OK
        /\ tx.result = OK =>
              /\ tx.predictions[e].unlockBlock = unlockBlock
              /\ tx.predictions[e].unlockBlock > blockNumber

\* A record was just created that unlocks in the very next block.
C12_Witness ==
    /\ last.op = "submitPrediction"
    /\ Phase(predictions[last.entry]) = COMMITTED
    /\ predictions[last.entry].unlockBlock = blockNumber + 1

\* C13: on an existing record, a reveal by any caller other than its
\* predictor fails with Unauthorized and leaves the record unchanged, whatever
\* the score and salt (the committed ones included) and whatever the height
\* (>= unlockHeight included).
C13_OnlyPredictorReveals ==
    \A e \in Entries, c \in Addresses, s \in RevealScores, salt \in Salts :
        (Phase(predictions[e]) # NONE /\ c # predictions[e].predictor) =>
            /\ RevealTx(c, e, s, salt).result = Unauthorized
            /\ RevealTx(c, e, s, salt).predictions = predictions

\* An unlocked, unrevealed record whose committed score and salt open it for
\* the predictor and are refused from another account.
C13_Witness ==
    \E e \in Entries, c \in Addresses :
        /\ Phase(predictions[e]) = COMMITTED
        /\ blockNumber >= predictions[e].unlockBlock
        /\ c # predictions[e].predictor
        /\ RevealTx(predictions[e].predictor, e,
                    opening[e].score, opening[e].salt).result = OK
        /\ RevealTx(c, e, opening[e].score, opening[e].salt).result = Unauthorized

\* C14: reveal succeeds at most once per entity: once the record is REVEALED
\* or SETTLED, every reveal by the predictor (the arguments of the successful
\* reveal included) fails with AlreadyRevealed and changes nothing, and no
\* step writes revealed or revealedScore of a record already revealed.
C14_RevealOnce ==
    [][\A e \in Entries :
          /\ Phase(predictions[e]) \in {REVEALED, SETTLED} =>
                /\ \A s \in RevealScores, salt \in Salts :
                      LET tx == RevealTx(predictions[e].predictor, e, s, salt) IN
                      /\ tx.result = AlreadyRevealed
                      /\ tx.predictions = predictions
                /\ predictions'[e].revealed
                /\ predictions'[e].revealedScore = predictions[e].revealedScore
          /\ (\E c \in Addresses, s \in RevealScores, salt \in Salts :
                 revealPrediction(c, e, s, salt)) => ~predictions[e].revealed]_vars

\* A settled record on which the predictor repeats the reveal that went
\* through and is answered AlreadyRevealed.
C14_Witness ==
    \E e \in Entries :
        /\ Phase(predictions[e]) = SETTLED
        /\ RevealTx(predictions[e].predictor, e,
                    opening[e].score, opening[e].salt).result = AlreadyRevealed

\* C15: once a record exists, its predictor, commitment and unlockBlock
\* never change: no step of any operation writes them, and a repeated,
\* well-formed submit by either predictor would leave them as they are.
C15_ImmutableFields ==
    [][\A e \in Entries :
          Phase(predictions[e]) # NONE =>
              /\ predictions'[e].predictor = predictions[e].predictor
              /\ predictions'[e].commitment = predictions[e].commitment
              /\ predictions'[e].unlockBlock = predictions[e].unlockBlock
              /\ \A c \in Predictors, commitment \in SubmitCommitments :
                    LET tx == SubmitTx(c, e, "bafy-video", commitment,
                                       blockNumber + 1, MaxStake)
                    IN /\ tx.predictions[e].predictor = predictions[e].predictor
                       /\ tx.predictions[e].commitment = predictions[e].commitment
                       /\ tx.predictions[e].unlockBlock = predictions[e].unlockBlock]_vars

\* A record that went through reveal and settlement and still carries the
\* commitment of the score and salt its predictor hashed, with minStake
\* changed by the owner since.
C15_Witness ==
    \E e \in Entries :
        /\ Phase(predictions[e]) = SETTLED
        /\ minStake # DefaultMinStake
        /\ predictions[e].commitment =
               computeCommitment(opening[e].score, opening[e].salt)

\* C16: for every existing record, amountStaked = 0 exactly when settled is
\* true (the stake is the bonded value until settlement and 0 after it).
C16_StakeZeroIffSettled ==
    \A e \in Entries :
        Phase(predictions[e]) # NONE =>
            (predictions[e].amountStaked = 0 <=> predictions[e].settled)

\* C17: a record not revealed has revealedScore = 0; a revealed record has a
\* revealedScore in [0,1000] that is the score committed to (it hashes to the
\* stored commitment with some salt); only a revealPrediction step changes
\* revealedScore, so settle and setScore leave it.
C17_RevealedScore ==
    [][\A e \in Entries :
          /\ ~predictions[e].revealed => predictions[e].revealedScore = 0
          /\ predictions[e].revealed =>
                /\ predictions[e].revealedScore \in 0..MaxScore
                /\ \E salt \in Salts :
                      computeCommitment(predictions[e].revealedScore, salt)
                          = predictions[e].commitment
                /\ predictions[e].revealedScore = opening[e].score
          /\ predictions'[e].revealedScore # predictions[e].revealedScore =>
                \E c \in Addresses, s \in RevealScores, salt \in Salts :
                    revealPrediction(c, e, s, salt)
          /\ (DoSettle \/ DoSetAIScore) =>
                predictions'[e].revealedScore = predictions[e].revealedScore]_vars

\* A settled record whose revealedScore is the committed 725, with the oracle
\* score set again after the settlement.
C17_Witness ==
    \E e \in Entries :
        /\ Phase(predictions[e]) = SETTLED
        /\ predictions[e].revealedScore = 725
        /\ opening[e].score = 725
        /\ last.op = "setAIScore"

\* The error kind of the specification for a score above 1000.
InvalidScore == ScoreTooHigh

C19_NoRetroactiveEffect ==
    [][\A e \in Entries :
          settles[e] >= 1 =>
              /\ Phase(predictions[e]) = SETTLED
              /\ DoSetAIScore =>
                    /\ predictions' = predictions
                    /\ balance' = balance
                    /\ settles' = settles /\ transfers' = transfers
              /\ \A b \in RecipientBehaviours :
                    /\ SettleTx(e, b).result # OK
                    /\ SettleTx(e, b).paid = 0
                    /\ SettleTx(e, b).balance = balance]_vars

\* An entity settled with an exact match and paid, whose oracle score the
\* owner has since overwritten with another value.
C19_Witness ==
    \E e \in Entries :
        /\ settles[e] = 1
        /\ transfers[e] = 1
        /\ last.op = "setAIScore"
        /\ aiScores[e] # predictions[e].revealedScore
        /\ predictions[e].revealedScore = 725

\* The sessions whose submit was mined.
Winners == {s \in Sessions : hook[s].pc = "confirmed"}

\* C20: of the submits two sessions send for the same entity (same or
\* different accounts, each after the hook's read of the existing record), at
\* most one is mined; the stored record is exactly the winner's (predictor,
\* stake, unlockBlock, commitment); the contract holds the winner's stake and
\* nothing of a loser's, whose call reverted.
C20_ConcurrentSubmit ==
    \A e \in Entries :
        /\ Cardinality(Winners) <= 1
        /\ \A s \in Winners :
              /\ predictions[e] = NewPrediction(hook[s].account, hook[s].commitment,
                                                hook[s].unlockBlock, hook[s].stake)
              /\ balance = hook[s].stake
        /\ Winners = {} => Phase(predictions[e]) = NONE /\ balance = 0
        /\ \A s \in Sessions :
              hook[s].pc = "failed" =>
                  hook[s].error \in {AlreadyCommitted, InvalidUnlock}

\* Two sessions both saw no record; one was mined, and the other, with a
\* different stake, reverted with AlreadyCommitted.
C20_Witness ==
    \E s1 \in Sessions, s2 \in Sessions :
        /\ hook[s1].pc = "confirmed"
        /\ hook[s2].pc = "failed"
        /\ hook[s2].error = AlreadyCommitted
        /\ hook[s2].stake # hook[s1].stake

\* C21: whoever calls settle, a payout goes to the predictor stored in the
\* record and to no one else: every settle call that would pay names the
\* stored predictor as recipient, a call that pays nothing names no recipient,
\* and the settlement last made paid the predictor of its record, not its
\* caller unless the caller is that predictor.
C21_PayoutToPredictor ==
    /\ \A e \in Entries, b \in RecipientBehaviours :
          LET tx == SettleTx(e, b) IN
          /\ tx.paid > 0 => /\ tx.result = OK
                            /\ tx.to = predictions[e].predictor
                            /\ tx.to # ZeroAddress
          /\ tx.paid = 0 => tx.to = ZeroAddress
    /\ last.op = "settlePrediction" =>
          /\ last.caller \in Settlers
          /\ last.paid > 0 => /\ last.to = predictions[last.entry].predictor
                              /\ last.caller # predictions[last.entry].predictor
                                    => last.to # last.caller
          /\ last.paid = 0 => last.to = ZeroAddress

\* A settlement called by an address that is neither the predictor nor the
\* owner, which paid the predictor.
C21_Witness ==
    /\ last.op = "settlePrediction"
    /\ last.caller # Owner
    /\ last.caller # predictions[last.entry].predictor
    /\ last.paid > 0
    /\ last.to = predictions[last.entry].predictor

\* ------------------------------------------------- the score conversions
\* A Number of the front end: (-1)^neg * mant / 2^exp, with mant = 0 or
\* 2^(Precision-1) <= mant < 2^Precision, each operation rounded to the
\* nearest such value, ties to the even significand.
RECURSIVE Pow2(_)
Pow2(n) == IF n = 0 THEN 1 ELSE 2 * Pow2(n - 1)

Zero == [neg |-> FALSE, mant |-> 0, exp |-> 0]

RoundHalfEven(num, den) ==
    LET q == num \div den
        r == num % den
    IN IF 2 * r > den \/ (2 * r = den /\ q % 2 = 1) THEN q + 1 ELSE q

Normal(neg, m, k) ==
    IF m = Pow2(Precision) THEN [neg |-> neg, mant |-> m \div 2, exp |-> k - 1]
    ELSE [neg |-> neg, mant |-> m, exp |-> k]

\* The least k >= from with a * 2^k >= d * 2^(Precision-1).
RECURSIVE ExpFor(_, _, _)
ExpFor(a, d, from) ==
    IF a * Pow2(from) >= d * Pow2(Precision - 1) THEN from
    ELSE ExpFor(a, d, from + 1)

\* n / d for integers n and d > 0 with |n| / d < 2^(Precision-1).
Quotient(n, d) ==
    LET a == IF n < 0 THEN 0 - n ELSE n
        k == ExpFor(a, d, 0)
    IN IF a = 0 THEN Zero
       ELSE Normal(n < 0, RoundHalfEven(a * Pow2(k), d), k)

\* The least j >= from with prod < 2^(Precision + j).
RECURSIVE ShiftFor(_, _)
ShiftFor(prod, from) ==
    IF prod \div Pow2(from) < Pow2(Precision) THEN from
    ELSE ShiftFor(prod, from + 1)

\* x * c for an integer c > 0.
Times(x, c) ==
    LET prod == x.mant * c
        j == ShiftFor(prod, 0)
    IN IF x.mant = 0 THEN x
       ELSE Normal(x.neg, RoundHalfEven(prod, Pow2(j)), x.exp - j)

\* Math.floor in the place of Math.round.
MathFloor(x) ==
    IF x.exp <= 0 THEN (IF x.neg THEN 0 - 1 ELSE 1) * x.mant * Pow2(0 - x.exp)
    ELSE IF ~x.neg THEN x.mant \div Pow2(x.exp)
    ELSE 0 - ((x.mant + Pow2(x.exp) - 1) \div Pow2(x.exp))

\* Math.round: the integer nearest to x, a half rounded up.
MathRound(x) ==
    IF x.exp <= 0 THEN (IF x.neg THEN 0 - 1 ELSE 1) * x.mant * Pow2(0 - x.exp)
    ELSE IF ~x.neg THEN (2 * x.mant + Pow2(x.exp)) \div Pow2(x.exp + 1)
    ELSE 0 - ((2 * x.mant + Pow2(x.exp) - 1) \div Pow2(x.exp + 1))

\* x > n for an integer n >= 0.
Greater(x, n) ==
    IF x.neg \/ x.mant = 0 THEN FALSE
    ELSE IF n = 0 THEN TRUE
    ELSE IF x.exp >= Precision THEN FALSE
    ELSE IF x.exp <= 0 THEN x.mant * Pow2(0 - x.exp) > n
    ELSE x.mant > n * Pow2(x.exp)

\* Math.max(0, Math.min(10, v))
Clamped(v) ==
    IF Greater(v, 10) THEN Quotient(10, 1)
    ELSE IF v.neg THEN Zero
    ELSE v

\* A scaled score shown as a decimal: scaled / 100.
decode(scaled) == Quotient(scaled, 100)

\* Math.round(predictedScore * 100) of the hook.
encode(predictedScore) == MathRound(Times(predictedScore, 100))

\* toScaledScore of the upload page.
toScaledScore(v) == MathRound(Times(Clamped(v), 100))

\* The hundredths converted: every scaled score and some beyond both ends.
CodecArgs == (0 - 50)..(MaxScore + 50)

InitCodec ==
    /\ InitContract
    /\ balance = 0
    /\ \E a \in CodecArgs :
          codec = [pc |-> "scaled", arg |-> a, decimal |-> Zero,
                   scaledScore |-> 0, clamped |-> 0, result |-> "none"]
    /\ storedEntries = [e \in Entries |-> NoPredictionResult]
    /\ prize = NoPayoutCall
    /\ contest = NoEntry

\* The score as a decimal Number (what parseFloat gives for the text with two
\* decimals, what scaled / 100 gives for the integer).
Decode ==
    /\ codec.pc = "scaled"
    /\ codec' = [codec EXCEPT !.pc = "decimal", !.decimal = decode(codec.arg)]
    /\ UNCHANGED <<predictions, aiScores, entryCids, minStake, blockNumber, balance,
                   scoreSet, settles, transfers, last, opening, hook,
                   storedEntries, prize, contest>>

\* Both conversions of the decimal to a scaled integer; neither has a failing
\* path.
Encode ==
    /\ codec.pc = "decimal"
    /\ codec' = [codec EXCEPT !.pc = "encoded",
                              !.scaledScore = encode(codec.decimal),
                              !.clamped = toScaledScore(codec.decimal),
                              !.result = OK]
    /\ UNCHANGED <<predictions, aiScores, entryCids, minStake, blockNumber, balance,
                   scoreSet, settles, transfers, last, opening, hook,
                   storedEntries, prize, contest>>

NextCodec == Decode \/ Encode

SpecCodec == InitCodec /\ [][NextCodec]_vars

\* C22: for every integer s in 0..1000, encoding the decoded s gives s back,
\* by the hook's Math.round(d * 100) and by toScaledScore alike.
C22_RoundTrip ==
    (codec.pc = "encoded" /\ codec.arg \in 0..MaxScore) =>
        /\ codec.scaledScore = codec.arg
        /\ codec.clamped = codec.arg

\* A score that came back from a decimal that is not exactly the hundredth
\* of it: its product with 100 is not the integer, the rounding restores it.
C22_Witness ==
    /\ codec.pc = "encoded"
    /\ codec.arg \in 1..MaxScore
    /\ Times(codec.decimal, 100) # Quotient(codec.arg, 1)
    /\ codec.scaledScore = codec.arg

\* The error kind of the specification's codec.
OutOfRange == "OutOfRange"

\* C23: encoding a decimal below 0 or above 10 fails with OutOfRange and
\* yields no scaled score, so that every scaled score the front end hashes
\* is within 0..1000.
C23_OutOfRangeRejected ==
    codec.pc = "encoded" =>
        /\ (codec.arg < 0 \/ codec.arg > MaxScore) => codec.result = OutOfRange
        /\ codec.scaledScore \in 0..MaxScore

\* The stakes of the records of S that are not settled.
RECURSIVE StakesHeld(_)
StakesHeld(S) ==
    IF S = {} THEN 0
    ELSE LET e == CHOOSE x \in S : TRUE IN
         (IF predictions[e].settled THEN 0 ELSE predictions[e].amountStaked)
             + StakesHeld(S \ {e})

\* C24: the balance of the contract covers the stakes of all records not yet
\* settled.
C24_EscrowSolvent == balance >= StakesHeld(Entries)

\* Settle calls scheduled fairly: a settle call that could succeed again and
\* again is eventually made.
SpecLive == Spec /\ SF_vars(DoSettle)

\* C25: every record that is revealed and whose entry has had its oracle
\* score set is eventually settled.
C25_SettlementLive ==
    \A e \in Entries :
        (predictions[e].revealed /\ scoreSet[e]) ~> predictions[e].settled

\* ------------------------------------------- the pages that commit and reveal
\* The scores typed into PredictionInput, in hundredths.
TypedScores == {0, 700, 725, 1050}

\* Number.isInteger
IsInteger(x) == x.exp <= 0 \/ x.mant % Pow2(x.exp) = 0

EncodingError == "value is not an integer in the range of uint16"

\* revealPrediction of the hook: the score it is given goes to the contract
\* call as it is, where the ABI encoder takes integers only.
HookRevealTx(account, entryId, scoreScaled, salt) ==
    IF ~IsInteger(scoreScaled) \/ scoreScaled.neg
    THEN [result |-> EncodingError, predictions |-> predictions]
    ELSE RevealTx(account, entryId, MathFloor(scoreScaled), salt)

\* PredictionInput.handleSubmit: the checks of the form, submitPrediction of
\* the hook (taken in one step here), then the entry saved with the decimal,
\* the salt and the unlock block the hook returned.
handleSubmit(account, entryId, typed, salt, stakeAmount) ==
    LET scoreValue == Quotient(typed, 100)
        scaledScore == encode(scoreValue)
        commitment == computeCommitment(scaledScore, salt)
        unlockBlock == blockNumber + BlocksToAdd
    IN
    /\ ~(typed < 0 \/ typed > 1000)
    /\ stakeAmount > 0
    /\ predictions[entryId].predictor = ZeroAddress
    /\ submitPrediction(account, entryId, "bafy-video", commitment, unlockBlock,
                        StakeToUse(stakeAmount),
                        [score |-> scaledScore, salt |-> salt])
    /\ storedEntries' = [storedEntries EXCEPT ![entryId] =
          [predictionResult |-> TRUE, creator |-> account,
           unlockBlock |-> unlockBlock, predictedScore |-> scoreValue,
           salt |-> salt, commitment |-> commitment,
           revealedAt |-> FALSE, settledAt |-> FALSE]]
    /\ UNCHANGED <<hook, codec, prize, contest>>

\* The guards of both handleReveal: a stored prediction, the unlock block
\* reached, neither revealedAt nor settledAt.
RevealOffered(entryId) ==
    LET entry == storedEntries[entryId] IN
    /\ entry.predictionResult
    /\ blockNumber >= entry.unlockBlock
    /\ ~(entry.revealedAt \/ entry.settledAt)

\* The call both handleReveal make: revealPrediction(id, predictedScore, salt).
RevealCall(entryId) ==
    LET entry == storedEntries[entryId] IN
    HookRevealTx(entry.creator, entryId, entry.predictedScore, entry.salt)

\* The reveal of a handler as mined; a call that throws leaves the handler
\* in its catch with nothing changed.
RevealMined(entryId) ==
    /\ RevealOffered(entryId)
    /\ RevealCall(entryId).result = OK
    /\ predictions' = RevealCall(entryId).predictions
    /\ last' = Call("revealPrediction", storedEntries[entryId].creator, entryId)
    /\ UNCHANGED <<aiScores, entryCids, minStake, blockNumber, balance, history,
                   codec, prize, contest>>

\* Home.handleReveal: after the reveal it calls getSettlementResults, which
\* the hook does not return: the call throws and nothing is saved.
HomeHandleReveal(entryId) ==
    /\ RevealMined(entryId)
    /\ UNCHANGED storedEntries

\* VideoCard.handleReveal: after the reveal it saves revealedAt and settledAt.
VideoCardHandleReveal(entryId) ==
    /\ RevealMined(entryId)
    /\ storedEntries' = [storedEntries EXCEPT ![entryId] =
          [@ EXCEPT !.revealedAt = TRUE, !.settledAt = TRUE]]

DoHandleSubmit ==
    \E account \in Predictors, entryId \in Entries, typed \in TypedScores,
       salt \in Salts, stakeAmount \in 0..MaxStake :
        handleSubmit(account, entryId, typed, salt, stakeAmount)

DoHomeHandleReveal == \E entryId \in Entries : HomeHandleReveal(entryId)

DoVideoCardHandleReveal == \E entryId \in Entries : VideoCardHandleReveal(entryId)

NextUI ==
    \/ DoHandleSubmit
    \/ DoHomeHandleReveal
    \/ DoVideoCardHandleReveal
    \/ DoSetAIScore
    \/ DoSettle
    \/ MineBlock

SpecUI == Init /\ [][NextUI]_vars

\* C26: the reveal the pages make for a prediction committed through
\* handleSubmit, once the unlock block is reached, succeeds and stores
\* round(d * 100) as revealedScore.
C26_RevealConsistent ==
    \A e \in Entries :
        (RevealOffered(e) /\ ~predictions[e].revealed) =>
            /\ RevealCall(e).result = OK
            /\ RevealCall(e).predictions[e].revealedScore
                   = encode(storedEntries[e].predictedScore)

\* C28: the stored prediction has settledAt only if the record on the chain is
\* SETTLED, and has revealedAt whenever the record was revealed by a handler.
C28_LocalTracksChain ==
    \A e \in Entries :
        /\ (storedEntries[e].predictionResult /\ storedEntries[e].settledAt)
              => Phase(predictions[e]) = SETTLED
        /\ predictions[e].revealed =>
              (storedEntries[e].predictionResult /\ storedEntries[e].revealedAt)

\* C27: a revealed record has its unlock block behind it (block.number only
\* grows and reveal checked it), so no settle call fails with TooEarly.
C27_RevealedIsUnlocked ==
    \A e \in Entries :
        /\ predictions[e].revealed => blockNumber >= predictions[e].unlockBlock
        /\ \A b \in RecipientBehaviours : SettleTx(e, b).result # TooEarly

\* A record revealed in its unlock block and settled in that same block.
C27_Witness ==
    /\ last.op = "settlePrediction"
    /\ Phase(predictions[last.entry]) = SETTLED
    /\ blockNumber = predictions[last.entry].unlockBlock

\* ------------------------------------------------------------ PrizePayout
\* _absDiff
absDiff(a, b) == IF a >= b THEN a - b ELSE b - a

\* The creator's share in basis points, by the distance of the prediction
\* from the final score.
CreatorBps(diff) ==
    IF diff <= 10 THEN 6000
    ELSE IF diff <= 30 THEN 4000
    ELSE IF diff <= 50 THEN 2000
    ELSE 0

\* (a * b) / c of uint256 for b <= c.  The product does not fit the integers
\* of the checker: a * b is kept as q * c + r with r < c and built from the
\* binary digits of a.
AddMod(x, y, c) ==
    IF x.r >= c - y.r THEN [q |-> x.q + y.q + 1, r |-> x.r - (c - y.r)]
    ELSE [q |-> x.q + y.q, r |-> x.r + y.r]

RECURSIVE MulMod(_, _, _)
MulMod(a, b, c) ==
    IF a = 0 THEN [q |-> 0, r |-> 0]
    ELSE LET half == MulMod(a \div 2, b, c)
             twice == AddMod(half, half, c)
         IN IF a % 2 = 1
            THEN AddMod(twice, IF b = c THEN [q |-> 1, r |-> 0]
                               ELSE [q |-> 0, r |-> b], c)
            ELSE twice

MulDiv(a, b, c) == MulMod(a, b, c).q

RECURSIVE SumTo(_, _)
SumTo(f, n) == IF n = 0 THEN 0 ELSE f[n] + SumTo(f, n - 1)

\* _computePayoutVector(entryId, poolAfterFee) over what the contest and the
\* prediction manager answer for the entry; rand is the hash the tie winner
\* is drawn from.
computePayoutVector(call) ==
    LET poolAfterFee == call.value
        audience == call.audience
        n == Len(audience)
        diff == absDiff(call.finalScore, call.predicted)
        creatorAmount == (poolAfterFee * CreatorBps(diff)) \div 10000
        audiencePool == poolAfterFee - creatorAmount
        err == [i \in 1..n |-> absDiff(call.aiScore, audience[i].scoreScaled)]
        stakers == {i \in 1..n : audience[i].stakeWei # 0}
        weights == [i \in 1..n |->
                       IF i \in stakers THEN 1000000000 \div (1 + err[i]) ELSE 0]
        totalWeight == SumTo(weights, n)
        tied == {i \in stakers : \A j \in stakers : err[i] <= err[j]}
        tieCount == Cardinality(tied)
        bonusDrawn == tieCount > 1 /\ audiencePool > 0
        tieBonus == IF bonusDrawn THEN audiencePool \div 100 ELSE 0
        tieWinnerIndex ==
            IF bonusDrawn
            THEN CHOOSE i \in tied :
                     Cardinality({j \in tied : j < i}) = call.rand % tieCount
            ELSE 0
        remainingAudiencePool == audiencePool - tieBonus
        shares == [i \in 1..n |->
                      IF audiencePool > 0 /\ totalWeight > 0 /\ weights[i] > 0
                      THEN MulDiv(remainingAudiencePool, weights[i], totalWeight)
                               + (IF i = tieWinnerIndex THEN tieBonus ELSE 0)
                      ELSE 0]
    IN
    [vector |-> <<[wallet |-> call.creator, amount |-> creatorAmount]>>
                    \o [i \in 1..n |-> [wallet |-> audience[i].wallet,
                                        amount |-> shares[i]]],
     sum |-> creatorAmount + SumTo(shares, n)]

BadSignature == "bad signature"
EntryNotRevealed == "not revealed"
SumMismatch == "sum mismatch"
TransferFailed == "native xfer fail"

\* The require chain of executePayout.
ExecutePayoutResult(call) ==
    IF ~call.signed THEN BadSignature
    ELSE IF ~call.revealed THEN EntryNotRevealed
    ELSE IF ~(computePayoutVector(call).sum = call.value) THEN SumMismatch
    ELSE IF ~call.delivered THEN TransferFailed
    ELSE OK

\* msg.value of the calls tried.
PrizePools == {0, 1, 3, 10, 250}

\* What an audience member scored and staked.
AudienceEntries(wallet) ==
    [wallet : {wallet}, scoreScaled : {700, 750}, stakeWei : {0, 1}]

\* The audience lists tried: nobody, one member, two members.
AudienceLists ==
    {<<>>} \cup {<<a>> : a \in AudienceEntries(2)}
           \cup {<<a, b>> : a \in AudienceEntries(2), b \in AudienceEntries(3)}

InitPrize ==
    /\ InitContract
    /\ balance = 0
    /\ codec = IdleCodec
    /\ storedEntries = [e \in Entries |-> NoPredictionResult]
    /\ contest = NoEntry
    /\ \E value \in PrizePools, finalScore \in {700, 725, 745, 800},
          aiScore \in {700, 725}, audience \in AudienceLists, rand \in {0, 1},
          signed \in BOOLEAN, revealed \in BOOLEAN, delivered \in BOOLEAN :
          prize = [pc |-> "called", value |-> value, creator |-> Owner,
                   finalScore |-> finalScore, predicted |-> 700,
                   aiScore |-> aiScore, audience |-> audience, rand |-> rand,
                   signed |-> signed, revealed |-> revealed,
                   delivered |-> delivered,
                   vector |-> <<>>, sum |-> 0, result |-> "none"]

\* executePayout, with what _computePayoutVector returned to it.
executePayout ==
    /\ prize.pc = "called"
    /\ prize' = [prize EXCEPT !.pc = "returned",
                              !.vector = computePayoutVector(prize).vector,
                              !.sum = computePayoutVector(prize).sum,
                              !.result = ExecutePayoutResult(prize)]
    /\ UNCHANGED <<predictions, aiScores, entryCids, minStake, blockNumber, balance,
                   scoreSet, settles, transfers, last, opening, hook, codec,
                   storedEntries, contest>>

NextPrize == executePayout

SpecPrize == InitPrize /\ [][NextPrize]_vars

\* C29: the amounts of the vector _computePayoutVector builds add up to the
\* pool it was given, so that executePayout never fails with 'sum mismatch'
\* on a revealed, correctly signed entry.
C29_PayoutConservation ==
    prize.pc = "returned" =>
        /\ prize.sum = prize.value
        /\ (prize.signed /\ prize.revealed) => prize.result # SumMismatch

\* ---------------------------------------------------------- LatentContest
\* Accounts that score an entry.
Audience == {2, 3}

\* createEntry: the stake and the CID checked, the entry written.
createEntry(caller, cidGiven, value) ==
    /\ contest.creator = ZeroAddress
    /\ value >= 1
    /\ cidGiven
    /\ contest' = [contest EXCEPT !.creator = caller, !.creatorStake = value]

\* audienceScoreAndStake; minAudienceStake is 1 here.
audienceScoreAndStake(caller, scoreScaled, value) ==
    /\ scoreScaled <= 10 * 100
    /\ contest.creator # ZeroAddress
    /\ ~contest.finalized
    /\ caller \notin contest.hasScored
    /\ value > 0 => value >= 1
    /\ contest' = [contest EXCEPT
          !.hasScored = @ \cup {caller},
          !.audienceScore[caller] = scoreScaled,
          !.audienceStake[caller] = IF value > 0 THEN value ELSE @,
          !.totalAudienceStake = @ + value,
          !.audienceList = Append(@, caller)]

\* onlyOwnerOrJudge, no judge appointed.
OwnerOrJudge(caller) == caller = Owner

\* setAIScore of LatentContest.
contestSetAIScore(caller, aiScoreScaled) ==
    /\ OwnerOrJudge(caller)
    /\ aiScoreScaled <= 10 * 100
    /\ contest.creator # ZeroAddress
    /\ contest' = [contest EXCEPT !.aiScore = aiScoreScaled, !.aiScoreSet = TRUE]

\* _aggregateAudience
aggregateAudience ==
    [sum |-> SumTo([i \in 1..Len(contest.audienceList) |->
                       contest.audienceScore[contest.audienceList[i]]],
                   Len(contest.audienceList)),
     count |-> Len(contest.audienceList)]

finalize(caller) ==
    LET agg == aggregateAudience
        audienceAvg == IF agg.count = 0 THEN contest.aiScore
                       ELSE (agg.sum \div agg.count) % 65536
        finalScore == ((contest.aiScore + audienceAvg) \div 2) % 65536
    IN
    /\ OwnerOrJudge(caller)
    /\ contest.creator # ZeroAddress
    /\ contest.aiScoreSet
    /\ ~contest.finalized
    /\ contest' = [contest EXCEPT !.audienceAvgScore = audienceAvg,
                                  !.finalScore = finalScore,
                                  !.finalized = TRUE,
                                  !.finalizes = @ + 1]

\* settle of LatentContest: the prediction revealed, the fee and the
\* remainder sent, the call of the prize payout not failing.
contestSettle(caller, revealed, paid) ==
    /\ OwnerOrJudge(caller)
    /\ contest.creator # ZeroAddress
    /\ contest.finalized
    /\ revealed
    /\ contest.creatorStake + contest.totalAudienceStake > 0
    /\ paid
    /\ contest' = [contest EXCEPT !.creatorStake = 0, !.totalAudienceStake = 0]

ContestFrame ==
    UNCHANGED <<predictions, aiScores, entryCids, minStake, blockNumber, balance,
                scoreSet, settles, transfers, last, opening, hook, codec,
                storedEntries, prize>>

DoCreateEntry ==
    \E cidGiven \in BOOLEAN, value \in 0..MaxStake :
        createEntry(Owner, cidGiven, value) /\ ContestFrame

DoAudienceScoreAndStake ==
    \E caller \in Audience, scoreScaled \in {700, 751, 1001}, value \in {0, 1} :
        audienceScoreAndStake(caller, scoreScaled, value) /\ ContestFrame

DoContestSetAIScore ==
    \E caller \in AdminCallers, s \in {0, 700, 725, 1001} :
        contestSetAIScore(caller, s) /\ ContestFrame

DoFinalize == \E caller \in AdminCallers : finalize(caller) /\ ContestFrame

DoContestSettle ==
    \E caller \in AdminCallers, revealed \in BOOLEAN, paid \in BOOLEAN :
        contestSettle(caller, revealed, paid) /\ ContestFrame

NextContest ==
    \/ DoCreateEntry
    \/ DoAudienceScoreAndStake
    \/ DoContestSetAIScore
    \/ DoFinalize
    \/ DoContestSettle

\* The contest deployed, no entry created.
InitContest == Init /\ balance = 0

SpecContest == InitContest /\ [][NextContest]_vars

\* C30: an entry is finalized at most once and only with its AI score set,
\* and from then on finalScore = floor((aiScore + audienceAvgScore) / 2), with
\* audienceAvgScore = aiScore when nobody scored.
C30_FinalScoreRelation ==
    /\ contest.finalizes <= 1
    /\ contest.finalized =>
          /\ contest.aiScoreSet
          /\ contest.finalScore
                 = (contest.aiScore + contest.audienceAvgScore) \div 2
          /\ contest.audienceList = <<>> =>
                 contest.audienceAvgScore = contest.aiScore

====
